---- MODULE Spec2Model ----
(***************************************************************************)
(* WOPR CircuitPython demo (code.py): the codebreaking routine wopr_solve,  *)
(* its two callers, and the button-polling main loop that dispatches them.  *)
(*                                                                          *)
(* Two specifications:                                                      *)
(*   Spec       the whole program: the forever loop of code.py, which       *)
(*              starts wopr_solve with the two shipped (code, order) pairs. *)
(*   SpecSolve  one call of wopr_solve(solved_code, solved_order) for every *)
(*              pair of a bounded set of valid arguments.                   *)
(*                                                                          *)
(* Text is a TLA+ string; a list of characters is a sequence of one-        *)
(* character strings.  Python's 0-based index i is position i + 1 here.     *)
(* The millisecond clock is an input of the program: ticks_ms is the value  *)
(* the next call of adafruit_ticks.ticks_ms() returns.  It is drawn afresh  *)
(* when a search step starts and advanced by the time one pass of the       *)
(* search loop takes.  BUT2 is the raw input that BUT2_debounce samples;    *)
(* the environment may change it between any two steps of the program.      *)
(***************************************************************************)
EXTENDS Integers, Sequences, FiniteSets, TLC

VARIABLES
    pc,                       \* position of the single thread of control
    ret,                      \* where wopr_solve returns to
    x,                        \* loop variable of the two flourish loops
    level,                    \* Debouncer.value of BUT1..BUT4
    changed,                  \* Debouncer: value changed at the last update()
    solved_code,              \* wopr_solve parameter
    solved_order,             \* wopr_solve parameter
    solveCount,
    percent_solved,
    current_solution,
    current_solution_string,
    display,                  \* text last handed to wopr_text
    defconLED,                \* the five top LEDs, LED i at position i + 1
    audio,                    \* pwm output: frequency and duty_cycle
    poll_fell,                \* history: buttons whose .fell the last main-loop poll reported
    started,                  \* history: codebreaks started since the last main-loop poll
    BUT2,                     \* BUT2.value, the raw input of BUT2_debounce
    ticks_ms,                 \* the millisecond counter, as ticks_ms() returns it
    ticks_now,
    ticks_wait,
    ticks_next,
    elapsed                   \* history: milliseconds since ticks_now was read, not wrapped

vars == <<pc, ret, x, level, changed, solved_code, solved_order, solveCount,
          percent_solved, current_solution, current_solution_string, display,
          defconLED, audio, poll_fell, started, BUT2, ticks_ms, ticks_now,
          ticks_wait, ticks_next, elapsed>>

(***************************************************************************)
(* Bounds of the model                                                      *)
(***************************************************************************)
\* longest solved_order enumerated by SpecSolve (the shipped orders are added)
MaxOrderLen == 3

\* cells (0-based) that the enumerated orders of SpecSolve may name
OrderCells == {0, 3, 11}

(***************************************************************************)
(* Program constants                                                        *)
(***************************************************************************)
NumCells == 12
NumLEDs == 5
FlashCount == 5
LaunchCount == 5
AlertHz == 1500
PushHz == 880
ReleaseHz == 120
DemoLastHz == 523
PwmMax == 65535
solve_interval_min == 4000
solve_interval_max == 8000
\* adafruit_ticks: the counter wraps at 2**29 ms
TICKS_PERIOD == 536870912

Buttons == 1..4

Blank == " "

missile_code_movie == <<"C","P","E"," ","1","7","0","4"," ","T","K","S">>
solve_order_movie == <<7,1,4,6,11,2,5,0,10,9>>
lulz == <<"L","O","L","Z"," ","F","O","R"," ","Y","O","U">>
lulz_order == <<0,1,2,3,5,6,7,9,10,11>>

defcon_colors == << <<255,255,255>>, <<255,0,0>>, <<255,255,0>>, <<0,255,0>>, <<0,0,255>> >>

\* the alphabet with a blank as its first entry
codes_WithBlank == <<" ","B","C","D","E","F","0","1","2","3","4","5","6","7","8","9","0">>

codes == <<"A","B","C","D","E","F","0","1","2","3","4","5","6","7","8","9","0">>

Off == <<0,0,0>>
\* a colour of tinys3.rgb_color_wheel; the phase of the wheel is not tracked
Wheel == <<-1,-1,-1>>

AllOff == [i \in 1..NumLEDs |-> Off]
BlankSolution == [i \in 1..NumCells |-> Blank]
\* current_solution_string before its first assignment
Unbound == "<unbound>"

(***************************************************************************)
(* Inputs                                                                   *)
(***************************************************************************)
\* random.randint(90,250) of the computer-noise tone: the two ends
NoiseHz == {90, 250}

\* the random.randint(0,len(codes)-1) results of one pass of the fill loop,
\* by loop index i (position i + 1), as positions in codes
FillDraws == { [i \in 1..NumCells |-> 1],
               [i \in 1..NumCells |-> 17],
               [i \in 1..NumCells |-> ((5 * i) % 17) + 1] }

\* the time one pass of the search loop takes: the 50 ms tone and the writes
\* to the display, and whatever else delays the next test of the deadline
SearchElapsed == {4000, 5000}

\* ticks_ms() at line 163 (one value far from the wrap, one just before it)
\* with the random.randint(solve_interval_min,solve_interval_max) of line 164
StepDraws == { <<0, solve_interval_min>>,
               <<TICKS_PERIOD - 5000, solve_interval_max>> }

\* time.localtime() at a clock render
LocalTimes == { <<0, 0, 0>>, <<23, 59, 7>> }

Digits == <<"0","1","2","3","4","5","6","7","8","9">>

\* a 12-cell code with no blank cell (the demo's test pattern)
test_code == <<"0","1","2","3","4","5","6","7","8","9","A","B">>

RECURSIVE OrdersUpTo(_)
OrdersUpTo(n) ==
    IF n = 0 THEN { <<>> }
    ELSE LET shorter == OrdersUpTo(n - 1)
         IN shorter \cup { Append(o, c) : o \in shorter, c \in OrderCells }

\* the (solved_code, solved_order) arguments of SpecSolve
SolvePairs ==
    ({missile_code_movie, lulz, test_code} \X OrdersUpTo(MaxOrderLen))
    \cup { <<missile_code_movie, solve_order_movie>>, <<lulz, lulz_order>> }

(***************************************************************************)
(* Helpers                                                                  *)
(***************************************************************************)
\* "".join(chars)
RECURSIVE Join(_)
Join(chars) ==
    IF chars = <<>> THEN "" ELSE Head(chars) \o Join(Tail(chars))

\* "{:02}".format(n) for 0 <= n <= 99
Fmt02(n) == Digits[(n \div 10) + 1] \o Digits[(n % 10) + 1]

format_datetime(datetime) ==
    Fmt02(datetime[1]) \o " " \o Fmt02(datetime[2]) \o " " \o Fmt02(datetime[3]) \o " "

\* the tone left on whatever continuous says
wopr_beep_NeverOff(frequency, continuous) ==
    [frequency |-> frequency, duty_cycle |-> PwmMax \div 2]

\* the pwm output after wopr_beep(frequency, beep_time, 0.5, continuous) returns
wopr_beep(frequency, continuous) ==
    [frequency |-> frequency,
     duty_cycle |-> IF continuous THEN PwmMax \div 2 ELSE 0]

\* wopr_button_beep(beep_type)
wopr_button_beep(beep_type) ==
    IF beep_type = 1 THEN wopr_beep(PushHz, FALSE) ELSE wopr_beep(ReleaseHz, FALSE)

\* adafruit_ticks.ticks_add
ticks_add(ticks, delta) == (ticks + delta) % TICKS_PERIOD

\* adafruit_ticks.ticks_diff: the signed difference of two wrapped readings
ticks_diff(ticks1, ticks2) ==
    ((((ticks1 - ticks2) % TICKS_PERIOD) + (TICKS_PERIOD \div 2)) % TICKS_PERIOD)
        - (TICKS_PERIOD \div 2)

\* adafruit_ticks.ticks_less
ticks_less(ticks1, ticks2) == ticks_diff(ticks1, ticks2) < 0

\* the deadline test written as a plain comparison of the two readings
Searching_PlainLess(now, next) == now < next

\* line 167: while adafruit_ticks.ticks_less(adafruit_ticks.ticks_ms(),ticks_next)
Searching(now, next) == ticks_less(now, next)

\* update() reporting a change whenever the input reads low
Update_Held(old, value) == [level |-> value, changed |-> ~value]

\* Debouncer.update() of an input that reads value: the debounced level and
\* whether it changed
Update(old, value) == [level |-> value, changed |-> value # old]

\* fell read as a level (the button is down) instead of an edge
fell_Level(b) == ~level[b]

\* Debouncer properties
fell(b) == changed[b] /\ ~level[b]
rose(b) == changed[b] /\ level[b]

\* the percentage taken before solveCount += 1
PercentSolved_BeforeIncrement(count, len) == ((4 * (len - (count - 1))) \div len) + 1

\* the fraction solved instead of the fraction left
PercentSolved_Rising(count, len) == ((4 * count) \div len) + 1

\* int((1.0 - solveCount / len(solved_order))*4)+1; the float product is exact
\* or far from an integer for these lengths, so it is the integer floor
PercentSolved(count, len) == ((4 * (len - count)) \div len) + 1

\* the fill loop started at 0 instead of solveCount
FillFrom_Zero(sol, i, order, draw) ==
    IF Len(order) = 0 THEN sol
    ELSE [c \in 1..NumCells |->
            IF \E j \in 1..Len(order) : order[j] + 1 = c
              THEN codes[draw[CHOOSE j \in 1..Len(order) : order[j] + 1 = c]]
              ELSE sol[c]]

\* the fill loop writing cell i instead of cell solved_order[i]
RECURSIVE FillFrom_ByIndex(_, _, _, _)
FillFrom_ByIndex(sol, i, order, draw) ==
    IF i >= Len(order) THEN sol
    ELSE FillFrom_ByIndex([sol EXCEPT ![i + 1] = codes[draw[i + 1]]],
                          i + 1, order, draw)

\* the cells written by one pass of the fill loop:
\* for i in range(solveCount,len(solved_order)): current_solution[solved_order[i]]=codes[...]
\* later loop indices overwrite earlier ones that name the same cell
RECURSIVE FillFrom(_, _, _, _)
FillFrom(sol, i, order, draw) ==
    IF i >= Len(order) THEN sol
    ELSE FillFrom([sol EXCEPT ![order[i + 1] + 1] = codes[draw[i + 1]]],
                  i + 1, order, draw)

\* the reveal reading solved_code[solveCount] instead of solved_code[solved_order[solveCount]]
RevealCell_ByCount(sol, count, order, code) ==
    [sol EXCEPT ![order[count + 1] + 1] = code[count + 1]]

\* the reveal always writing the first cell of the order
RevealCell_First(sol, count, order, code) ==
    [sol EXCEPT ![order[1] + 1] = code[order[1] + 1]]

\* the reveal not written into the buffer at all
RevealCell_Skipped(sol, count, order, code) == sol

\* a second reveal of a cell left out: the later occurrence writes nothing
RevealCell_OnceOnly(sol, count, order, code) ==
    IF \E j \in 1..count : order[j] = order[count + 1]
      THEN sol
      ELSE [sol EXCEPT ![order[count + 1] + 1] = code[order[count + 1] + 1]]

\* the cell written by the reveal: current_solution[solved_order[solveCount]]=solved_code[...]
RevealCell(sol, count, order, code) ==
    [sol EXCEPT ![order[count + 1] + 1] = code[order[count + 1] + 1]]

\* the locals of wopr_solve when no call is active
NoFrame ==
    /\ solved_code' = <<>>
    /\ solved_order' = <<>>
    /\ solveCount' = 0
    /\ percent_solved' = 0
    /\ current_solution' = BlankSolution
    /\ current_solution_string' = Unbound
    /\ x' = 0
    /\ ticks_now' = 0
    /\ ticks_wait' = 0
    /\ ticks_next' = 0

deadline == <<ticks_now, ticks_wait, ticks_next>>
frame == <<solved_code, solved_order, solveCount, percent_solved,
           current_solution, current_solution_string, x, deadline>>
buttons == <<level, changed, BUT2>>
time == <<ticks_ms, elapsed>>
history == <<poll_fell, started>>

(***************************************************************************)
(* wopr_solve                                                               *)
(***************************************************************************)
\* lines 154-160: LEDs off, blank display, fresh locals
SolveEnter ==
    /\ pc = "solve_entry"
    /\ defconLED' = AllOff
    /\ display' = ""
    /\ solveCount' = 0
    /\ percent_solved' = 0
    /\ current_solution' = BlankSolution
    /\ pc' = "outer"
    /\ UNCHANGED <<ret, x, solved_code, solved_order, current_solution_string,
                   audio, buttons, history,
                   deadline, time>>

\* line 161 true, lines 163-165: the next deadline is set
OuterNext ==
    /\ pc = "outer"
    /\ solveCount < Len(solved_order)
    /\ \E draw \in StepDraws :
          /\ ticks_now' = draw[1]
          /\ ticks_wait' = draw[2]
          /\ ticks_next' = ticks_add(ticks_now', ticks_wait')
          /\ ticks_ms' = draw[1]
    /\ elapsed' = 0
    /\ pc' = "inner"
    /\ UNCHANGED <<ret, x, solved_code, solved_order, solveCount, percent_solved,
                   current_solution, current_solution_string, display, defconLED,
                   audio, buttons, history>>

\* the abort check without the update() before it
SearchPoll_NoUpdate ==
    /\ pc = "inner"
    /\ Searching(ticks_ms, ticks_next)
    /\ pc' = "polled"
    /\ UNCHANGED <<ret, frame, display, defconLED, audio, buttons, history, time>>

\* line 167 true (the deadline is ahead), line 168: BUT2_debounce.update()
SearchPoll ==
    /\ pc = "inner"
    /\ Searching(ticks_ms, ticks_next)
    /\ changed' = [changed EXCEPT ![2] = Update(level[2], BUT2).changed]
    /\ level' = [level EXCEPT ![2] = Update(level[2], BUT2).level]
    /\ pc' = "polled"
    /\ UNCHANGED <<ret, frame, display, defconLED, audio, history,
                   time, BUT2>>

\* the abort branch without its return
Abort_FallThrough ==
    /\ pc = "polled"
    /\ fell(2)
    /\ display' = "ABORT"
    /\ audio' = wopr_beep(AlertHz, FALSE)
    /\ pc' = "inner"
    /\ UNCHANGED <<ret, frame, defconLED, buttons, history,
                   time>>

\* lines 169-171: abort
Abort ==
    /\ pc = "polled"
    /\ fell(2)
    /\ display' = "ABORT"
    /\ audio' = wopr_beep(AlertHz, FALSE)
    /\ pc' = "aborted"
    /\ UNCHANGED <<ret, frame, defconLED, buttons, history,
                   time>>

\* line 169 false, lines 174-178: noise tone, random fill, display
SearchFill ==
    /\ pc = "polled"
    /\ ~fell(2)
    /\ \E hz \in NoiseHz : audio' = wopr_beep(hz, TRUE)
    /\ \E draw \in FillDraws :
          current_solution' = FillFrom(current_solution, solveCount, solved_order, draw)
    /\ current_solution_string' = Join(current_solution')
    /\ display' = current_solution_string'
    /\ \E ms \in SearchElapsed :
          /\ ticks_ms' = ticks_add(ticks_ms, ms)
          /\ elapsed' = elapsed + ms
    /\ pc' = "inner"
    /\ UNCHANGED <<ret, x, solved_code, solved_order, solveCount, percent_solved,
                   defconLED, buttons, history, deadline>>

\* line 167 false (deadline reached), lines 180-188: the next cell is solved
Reveal ==
    /\ pc = "inner"
    /\ ~Searching(ticks_ms, ticks_next)
    /\ current_solution' = RevealCell(current_solution, solveCount, solved_order, solved_code)
    /\ current_solution_string' = Join(current_solution')
    /\ display' = current_solution_string'
    /\ solveCount' = solveCount + 1
    /\ percent_solved' = PercentSolved(solveCount', Len(solved_order))
    /\ IF percent_solved' \in 0..(NumLEDs - 1)
         THEN /\ defconLED' = [AllOff EXCEPT ![percent_solved' + 1] =
                                                 defcon_colors[percent_solved' + 1]]
              /\ audio' = wopr_beep(AlertHz, FALSE)
              /\ pc' = "outer"
         ELSE /\ defconLED' = AllOff
              /\ audio' = audio
              /\ pc' = "IndexError"
    /\ UNCHANGED <<ret, x, solved_code, solved_order, buttons, history,
                   deadline, time>>

\* line 161 false, lines 191-193
FlashBegin ==
    /\ pc = "outer"
    /\ solveCount >= Len(solved_order)
    /\ defconLED' = [AllOff EXCEPT ![1] = defcon_colors[1]]
    /\ x' = 0
    /\ pc' = "flash"
    /\ UNCHANGED <<ret, solved_code, solved_order, solveCount, percent_solved,
                   current_solution, current_solution_string, display, audio,
                   buttons, history,
                   deadline, time>>

\* lines 194-200: one pass of the loop that flashes the broken code
FlashIter ==
    /\ pc = "flash"
    /\ x < FlashCount
    /\ defconLED' = [AllOff EXCEPT ![1] = defcon_colors[1]]
    /\ IF current_solution_string = Unbound
         THEN /\ display' = ""
              /\ audio' = audio
              /\ x' = x
              /\ pc' = "UnboundLocalError"
         ELSE /\ display' = current_solution_string
              /\ audio' = wopr_beep(AlertHz, FALSE)
              /\ x' = x + 1
              /\ pc' = "flash"
    /\ UNCHANGED <<ret, solved_code, solved_order, solveCount, percent_solved,
                   current_solution, current_solution_string, buttons, history,
                   deadline, time>>

\* line 194 exhausted: on to the second loop
FlashEnd ==
    /\ pc = "flash"
    /\ x >= FlashCount
    /\ x' = 0
    /\ pc' = "launch"
    /\ UNCHANGED <<ret, solved_code, solved_order, solveCount, percent_solved,
                   current_solution, current_solution_string, display, defconLED,
                   audio, buttons, history,
                   deadline, time>>

\* the "LAUNCHING ..." loop with a poll of BUT2 in every pass
LaunchIter_Polls ==
    /\ pc = "launch"
    /\ x < LaunchCount
    /\ changed' = [changed EXCEPT ![2] = Update(level[2], BUT2).changed]
    /\ level' = [level EXCEPT ![2] = Update(level[2], BUT2).level]
    /\ display' = "LAUNCHING ..."
    /\ x' = x + 1
    /\ UNCHANGED <<pc, ret, solved_code, solved_order, solveCount, percent_solved,
                   current_solution, current_solution_string, defconLED, audio,
                   BUT2, history, deadline, time>>

\* lines 202-206: one pass of the "LAUNCHING ..." loop
LaunchIter ==
    /\ pc = "launch"
    /\ x < LaunchCount
    /\ display' = "LAUNCHING ..."
    /\ x' = x + 1
    /\ UNCHANGED <<pc, ret, solved_code, solved_order, solveCount, percent_solved,
                   current_solution, current_solution_string, defconLED, audio,
                   buttons, history,
                   deadline, time>>

\* line 202 exhausted: the function body ends
LaunchEnd ==
    /\ pc = "launch"
    /\ x >= LaunchCount
    /\ pc' = "completed"
    /\ UNCHANGED <<ret, frame, display, defconLED, audio, buttons, history,
                   time>>

\* line 172, or falling off the end of the function: back to the caller
SolveReturn ==
    /\ pc \in {"aborted", "completed"}
    /\ pc' = ret
    /\ ret' = "none"
    /\ NoFrame
    /\ UNCHANGED <<display, defconLED, audio, buttons, history, time>>

SolveNext ==
    \/ SolveEnter
    \/ OuterNext
    \/ SearchPoll
    \/ Abort
    \/ SearchFill
    \/ Reveal
    \/ FlashBegin
    \/ FlashIter
    \/ FlashEnd
    \/ LaunchIter
    \/ LaunchEnd
    \/ SolveReturn

(***************************************************************************)
(* The main forever loop                                                    *)
(***************************************************************************)
\* lines 273-278: update the four debouncers, show the time
MainPoll ==
    /\ pc = "poll"
    /\ \E toggled \in SUBSET (Buttons \ {2}) :
          /\ changed' = [b \in Buttons |->
                IF b = 2 THEN Update(level[2], BUT2).changed ELSE b \in toggled]
          /\ level' = [b \in Buttons |->
                IF b = 2 THEN Update(level[2], BUT2).level
                ELSE IF b \in toggled THEN ~level[b] ELSE level[b]]
    /\ poll_fell' = {b \in Buttons : changed'[b] /\ ~level'[b]}
    /\ started' = [b \in {2, 3} |-> 0]
    /\ \E t \in LocalTimes : display' = format_datetime(t)
    /\ pc' = "but1"
    /\ UNCHANGED <<ret, frame, defconLED, audio, time, BUT2>>

\* lines 281-329: BUT1 released: beep; BUT1 pushed: the text and audio demo
But1 ==
    /\ pc = "but1"
    /\ IF fell(1)
         THEN /\ audio' = wopr_button_beep(2)
              /\ display' = display
         ELSE IF rose(1)
                THEN /\ audio' = wopr_beep(DemoLastHz, FALSE)
                     /\ display' = "DEMO OVER"
                ELSE UNCHANGED <<audio, display>>
    /\ pc' = "but2fell"
    /\ UNCHANGED <<ret, frame, defconLED, buttons, history,
                   time>>

\* lines 332-335 and 122-128: BUT2 released: wopr_solve_movie()
But2Fell ==
    /\ pc = "but2fell"
    /\ IF fell(2)
         THEN /\ audio' = wopr_button_beep(2)
              /\ solved_code' = missile_code_movie
              /\ solved_order' = solve_order_movie
              /\ started' = [started EXCEPT ![2] = @ + 1]
              /\ ret' = "but2rose"
              /\ pc' = "solve_entry"
         ELSE /\ pc' = "but2rose"
              /\ UNCHANGED <<audio, solved_code, solved_order, started, ret>>
    /\ UNCHANGED <<x, solveCount, percent_solved, current_solution,
                   current_solution_string, display, defconLED, buttons, poll_fell,
                   deadline, time>>

\* lines 337-339
But2Rose ==
    /\ pc = "but2rose"
    /\ audio' = IF rose(2) THEN wopr_button_beep(1) ELSE audio
    /\ pc' = "but3fell"
    /\ UNCHANGED <<ret, frame, display, defconLED, buttons, history,
                   time>>

\* lines 342-347: BUT3 released: the "LOLZ FOR YOU" codebreak
But3Fell ==
    /\ pc = "but3fell"
    /\ IF fell(3)
         THEN /\ audio' = wopr_button_beep(2)
              /\ solved_code' = lulz
              /\ solved_order' = lulz_order
              /\ started' = [started EXCEPT ![3] = @ + 1]
              /\ ret' = "but3rose"
              /\ pc' = "solve_entry"
         ELSE /\ pc' = "but3rose"
              /\ UNCHANGED <<audio, solved_code, solved_order, started, ret>>
    /\ UNCHANGED <<x, solveCount, percent_solved, current_solution,
                   current_solution_string, display, defconLED, buttons, poll_fell,
                   deadline, time>>

\* lines 349-351
But3Rose ==
    /\ pc = "but3rose"
    /\ audio' = IF rose(3) THEN wopr_button_beep(1) ELSE audio
    /\ pc' = "but4"
    /\ UNCHANGED <<ret, frame, display, defconLED, buttons, history,
                   time>>

\* lines 353-361: BUT4 released: beep; BUT4 pushed: beep and the marquee,
\* which scrolls until the twelve trailing blanks of its text are shown
But4 ==
    /\ pc = "but4"
    /\ IF fell(4)
         THEN /\ audio' = wopr_button_beep(2)
              /\ display' = display
         ELSE IF rose(4)
                THEN /\ audio' = wopr_button_beep(1)
                     /\ display' = Join(BlankSolution)
                ELSE UNCHANGED <<audio, display>>
    /\ pc' = "tail"
    /\ UNCHANGED <<ret, frame, defconLED, buttons, history,
                   time>>

\* lines 363-374: the rainbow on the defcon LEDs, then the 15 ms sleep
TickTail ==
    /\ pc = "tail"
    /\ defconLED' = [i \in 1..NumLEDs |-> Wheel]
    /\ pc' = "poll"
    /\ UNCHANGED <<ret, frame, display, audio, buttons, history,
                   time>>

\* the environment: the raw BUT2 input goes low, or goes high
But2Falls ==
    /\ BUT2
    /\ BUT2' = FALSE
    /\ UNCHANGED <<pc, ret, frame, level, changed, display, defconLED, audio,
                   history, time>>

But2Rises ==
    /\ ~BUT2
    /\ BUT2' = TRUE
    /\ UNCHANGED <<pc, ret, frame, level, changed, display, defconLED, audio,
                   history, time>>

But2Input == But2Falls \/ But2Rises

MainNext ==
    \/ MainPoll
    \/ But1
    \/ But2Fell
    \/ But2Rose
    \/ But3Fell
    \/ But3Rose
    \/ But4
    \/ TickTail

(***************************************************************************)
(* Specifications                                                           *)
(***************************************************************************)
\* the state when the forever loop is first entered (line 269)
Init ==
    /\ pc = "poll"
    /\ ret = "none"
    /\ x = 0
    /\ level = [b \in Buttons |-> TRUE]
    /\ changed = [b \in Buttons |-> FALSE]
    /\ solved_code = <<>>
    /\ solved_order = <<>>
    /\ solveCount = 0
    /\ percent_solved = 0
    /\ current_solution = BlankSolution
    /\ current_solution_string = Unbound
    /\ display = "SET TIME"
    /\ defconLED = AllOff
    /\ audio = [frequency |-> 440, duty_cycle |-> 0]
    /\ poll_fell = {}
    /\ started = [b \in {2, 3} |-> 0]
    /\ BUT2 = TRUE
    /\ ticks_ms = 0
    /\ ticks_now = 0
    /\ ticks_wait = 0
    /\ ticks_next = 0
    /\ elapsed = 0

Next == MainNext \/ SolveNext \/ But2Input

Spec == Init /\ [][Next]_vars

\* a call wopr_solve(solved_code, solved_order) about to run line 154
InitSolve ==
    /\ pc = "solve_entry"
    /\ ret = "exit"
    /\ x = 0
    /\ level \in {[b \in Buttons |-> IF b = 2 THEN v ELSE TRUE] : v \in BOOLEAN}
    /\ changed \in {[b \in Buttons |-> IF b = 2 THEN c ELSE FALSE] : c \in BOOLEAN}
    /\ \E pair \in SolvePairs :
          /\ solved_code = pair[1]
          /\ solved_order = pair[2]
    /\ solveCount = 0
    /\ percent_solved = 0
    /\ current_solution = BlankSolution
    /\ current_solution_string = Unbound
    /\ display \in {format_datetime(t) : t \in LocalTimes}
    /\ defconLED = [i \in 1..NumLEDs |-> Wheel]
    /\ audio = wopr_button_beep(2)
    /\ poll_fell = {}
    /\ started = [b \in {2, 3} |-> 0]
    /\ BUT2 \in BOOLEAN
    /\ ticks_ms = 0
    /\ ticks_now = 0
    /\ ticks_wait = 0
    /\ ticks_next = 0
    /\ elapsed = 0

NextSolve == SolveNext \/ But2Input

SpecSolve == InitSolve /\ [][NextSolve]_vars

(***************************************************************************)
(* Properties                                                               *)
(***************************************************************************)
\* the cells a solved_order names
Named(order) == {order[j] : j \in 1..Len(order)}

\* a call of wopr_solve is past line 160 and has not returned
InRun == pc \in {"outer", "inner", "polled", "aborted", "flash", "launch", "completed"}

\* the outer loop of the call has ended without an abort
LoopDone == pc \in {"flash", "launch", "completed"}

\* the buffer with the named cells solved and every other cell blank
SolvedAsNamed(code, order) ==
    [c \in 1..NumCells |-> IF (c - 1) \in Named(order) THEN code[c] ELSE Blank]

NoRepeat(order) ==
    \A j, k \in 1..Len(order) : j # k => order[j] # order[k]

\* C1 as stated: a run that is not aborted ends with the solved string equal
\* to the target in every cell.
C1_FinalEqualsTarget ==
    pc = "completed" =>
        /\ current_solution = solved_code
        /\ current_solution_string = Join(solved_code)

\* C1 amended: when the outer loop has ended without an abort, current_solution
\* is the target on the cells the order names and blank elsewhere, the solved
\* string that is flashed is its join, and it equals the target in every cell
\* exactly when the target is blank on every cell the order does not name.
C1_FinalIsTargetOnNamedCells ==
    LoopDone =>
        /\ current_solution = SolvedAsNamed(solved_code, solved_order)
        /\ (current_solution = solved_code) <=>
              (\A c \in 1..NumCells :
                  (c - 1) \notin Named(solved_order) => solved_code[c] = Blank)
        /\ (pc = "flash" /\ x > 0) =>
              display = Join(SolvedAsNamed(solved_code, solved_order))

C1_Witness ==
    /\ pc = "completed"
    /\ solved_code = test_code
    /\ solved_order = <<11, 0>>
    /\ current_solution # solved_code

\* C2: after a full run without abort every cell the order names holds its
\* target character and every other cell is blank; for the two shipped pairs
\* the string on the display after the last reveal is the target string.
C2_SolvedBuffer ==
    (InRun /\ pc # "aborted" /\ solveCount = Len(solved_order)) =>
        /\ \A c \in 1..NumCells :
              current_solution[c] =
                 IF \E j \in 1..Len(solved_order) : solved_order[j] = c - 1
                   THEN solved_code[c] ELSE Blank
        /\ (pc = "outer" /\ solved_code = missile_code_movie
                         /\ solved_order = solve_order_movie)
              => display = "CPE 1704 TKS"
        /\ (pc = "outer" /\ solved_code = lulz /\ solved_order = lulz_order)
              => display = "LOLZ FOR YOU"

C2_Witness ==
    /\ pc = "outer"
    /\ solved_order = solve_order_movie
    /\ solveCount = Len(solved_order)
    /\ display = "CPE 1704 TKS"

\* C3: a run that is not aborted makes exactly len(order) reveals: solveCount
\* only ever grows by one, the step that takes it from k to k + 1 writes
\* target[order[k]] into cell order[k] and no other cell, and the outer loop
\* ends with solveCount = len(order).
C3_RevealSteps ==
    /\ [](LoopDone => solveCount = Len(solved_order))
    /\ [][(InRun /\ pc \notin {"aborted", "completed"} /\ solveCount' # solveCount) =>
            /\ solveCount' = solveCount + 1
            /\ solveCount < Len(solved_order)
            /\ current_solution' =
                  [current_solution EXCEPT ![solved_order[solveCount + 1] + 1] =
                        solved_code[solved_order[solveCount + 1] + 1]]]_vars

C3_Witness ==
    /\ pc = "flash"
    /\ Len(solved_order) = 2
    /\ solveCount = 2

\* C4: for an order of distinct cells, the first solveCount cells of the order
\* are the solved ones, and each keeps its target character in every later
\* state of the run, the random fills of the search loop included.
C4_RevealedStaysRevealed ==
    (InRun /\ NoRepeat(solved_order)) =>
        \A k \in 1..solveCount :
            current_solution[solved_order[k] + 1] = solved_code[solved_order[k] + 1]

\* a fill has run after the first reveal: the second cell holds a random character
C4_Witness ==
    /\ pc = "inner"
    /\ solved_code = missile_code_movie
    /\ solved_order = <<11, 0>>
    /\ solveCount = 1
    /\ current_solution[12] = "S"
    /\ current_solution[1] = "A"

\* C5: a cell the order does not name is blank in current_solution from entry
\* to return, and every frame shown in the search and reveal phases is the
\* join of current_solution.
C5_UnnamedCellsBlank ==
    InRun =>
        /\ \A c \in 1..NumCells :
              (c - 1) \notin Named(solved_order) => current_solution[c] = Blank
        /\ (pc \in {"outer", "inner", "polled"} /\ current_solution_string # Unbound)
              => display = Join(current_solution)

C5_Witness ==
    /\ pc = "polled"
    /\ solved_code = test_code
    /\ solved_order = <<3, 3>>
    /\ current_solution[4] = "0"
    /\ display = "   0        "

\* C6: when the poll of the search loop reports BUT2 fell, the call shows
\* "ABORT", leaves the 1500 Hz tone (switched off) as the last tone, and
\* returns as its next step: solveCount, the buffer and the LEDs are not
\* touched, the flourish is not entered, and nothing is written between the
\* abort and the return.  An abort at the first poll of the call leaves zero
\* cells revealed.
C6_AbortReturns ==
    /\ [][(pc = "polled" /\ fell(2) /\ BUT2' = BUT2) =>
            /\ pc' = "aborted"
            /\ display' = "ABORT"
            /\ audio' = [frequency |-> 1500, duty_cycle |-> 0]
            /\ UNCHANGED <<solveCount, current_solution, percent_solved, defconLED>>]_vars
    /\ [][(pc = "aborted" /\ BUT2' = BUT2) =>
            /\ pc' = ret
            /\ UNCHANGED <<display, defconLED, audio>>]_vars
    /\ [][(pc \in {"polled", "aborted"} /\ fell(2) /\ BUT2' # BUT2) =>
            UNCHANGED <<pc, solveCount, current_solution, display, defconLED, audio>>]_vars
    /\ []((pc = "aborted" /\ current_solution_string = Unbound) =>
            (solveCount = 0 /\ current_solution = BlankSolution))

C6_Witness ==
    /\ pc = "aborted"
    /\ display = "ABORT"
    /\ current_solution_string = Unbound
    /\ solveCount = 0

\* C7 as stated: after an aborted codebreak no codebreak starts before the
\* next main-loop poll and clock render ("ABORT" is still on the display when
\* a call that follows an abort is entered).
C7_NoRunAfterAbort ==
    ~(pc = "solve_entry" /\ display = "ABORT")

\* C8: at every reveal, for every order length >= 1, the LED index
\* percent_solved is within 0..4, so the write to the LED strip and the read
\* of the colour table never fail, and the LED of that index is the one lit.
C8_LedIndexInRange ==
    /\ pc # "IndexError"
    /\ (InRun /\ solveCount >= 1) =>
          /\ percent_solved \in 0..4
          /\ percent_solved # 5
          /\ (pc \in {"outer", "inner", "polled", "aborted"}) =>
                defconLED[percent_solved + 1] = defcon_colors[percent_solved + 1]

C8_Witness ==
    /\ pc = "outer"
    /\ Len(solved_order) = 1
    /\ solveCount = 1
    /\ percent_solved = 1
    /\ defconLED[2] = <<255, 0, 0>>

\* C9 as stated: percent_solved follows the formula at every solveCount,
\* 5 at solveCount = 0 and 1 at the final reveal.
C9_FiveAtZero ==
    (InRun /\ Len(solved_order) >= 1) =>
        /\ (solveCount = 0 => percent_solved = 5)
        /\ (solveCount = Len(solved_order) => percent_solved = 1)

\* C9 amended: from the first reveal on, percent_solved never rises from one
\* reveal to the next and is exactly 1 at the final reveal; before the first
\* reveal it holds its initial value 0, so the first reveal raises it.
C9_NonIncreasingFromFirstReveal ==
    /\ []((InRun /\ Len(solved_order) >= 1) =>
            /\ (solveCount = 0 => percent_solved = 0)
            /\ (solveCount = Len(solved_order) => percent_solved = 1))
    /\ [][(InRun /\ pc \notin {"aborted", "completed"}) =>
            /\ (solveCount >= 1 => percent_solved' <= percent_solved)
            /\ (solveCount = 0 /\ solveCount' = 1 => percent_solved' > percent_solved)]_vars

C9_Witness ==
    /\ pc = "outer"
    /\ solved_order = lulz_order
    /\ solveCount = 5
    /\ percent_solved = 3

\* C10: main-loop dispatch is edge-triggered.  Between two main-loop polls a
\* codebreak of BUT2 or BUT3 is started at most once, only if that poll
\* reported the button's fell edge, and by the end of the tick exactly once if
\* it did; a rose edge, a held button and an idle button start nothing.
C10_EdgeTriggered ==
    /\ \A b \in {2, 3} :
          /\ started[b] <= 1
          /\ started[b] = 1 => b \in poll_fell
    /\ pc \in {"but2rose", "but3fell"} => (started[2] = 1 <=> 2 \in poll_fell)
    /\ pc \in {"but3rose", "but4", "tail"} =>
          \A b \in {2, 3} : (started[b] = 1 <=> b \in poll_fell)

\* the movie codebreak has run in a tick in which BUT3 was held down and idle
C10_Witness ==
    /\ pc = "tail"
    /\ started[2] = 1
    /\ started[3] = 0
    /\ ~level[3]
    /\ ~changed[3]

\* C11: once the last cell has been revealed (solveCount = len(order) >= 1)
\* the call never samples BUT2 again: whatever the raw input does, the
\* debounced level and edge flag stay as they are, no step reaches the abort
\* check or the abort branch, the first flourish loop ends only after its
\* five passes, the second only after its five, and the call then returns.
C11_FlourishNotAbortable ==
    [][(InRun /\ Len(solved_order) >= 1 /\ solveCount = Len(solved_order)) =>
          /\ UNCHANGED <<level, changed>>
          /\ pc' \notin {"inner", "polled", "aborted"}
          /\ pc = "outer" => pc' \in {"outer", "flash"}
          /\ pc = "flash" =>
                \/ pc' = "flash" /\ x' \in {x, x + 1} /\ solveCount' = solveCount
                \/ pc' = "launch" /\ x = FlashCount
          /\ pc = "launch" =>
                \/ pc' = "launch" /\ x' \in {x, x + 1} /\ solveCount' = solveCount
                \/ pc' = "completed" /\ x = LaunchCount
          /\ pc = "completed" => pc' \in {"completed", ret}]_vars

\* the raw input differs from the debounced level in the middle of the
\* second flourish loop: BUT2 has moved since the call last sampled it
C11_Witness ==
    /\ pc = "launch"
    /\ x = 3
    /\ Len(solved_order) >= 1
    /\ BUT2 # level[2]

\* C12 as stated: for every valid order, the empty one included, and every
\* 12-cell target the call never reaches a fault state (an index out of range
\* on the LED strip or the colour table, or a read of the solved string before
\* its first assignment).
C12_NoFault ==
    pc \notin {"IndexError", "UnboundLocalError"}

\* the characters of the random code alphabet
Alphabet == {"A","B","C","D","E","F","0","1","2","3","4","5","6","7","8","9"}

\* the cells revealed so far: those named by the first solveCount positions
Revealed == {solved_order[k] : k \in 1..solveCount}

\* C13 as stated: at every point of a run before full completion, from entry
\* on, every cell that is not in the revealed set holds a character of the
\* alphabet.
C13_UnrevealedHoldAlphabet ==
    (InRun /\ ~LoopDone) =>
        \A c \in 1..NumCells :
            (c - 1) \notin Revealed => current_solution[c] \in Alphabet

\* C13 amended: a cell that is not in the revealed set holds a character of
\* the alphabet if the order names it and the search loop has made its first
\* fill pass of this run; before that pass, and if the order does not name
\* it, the cell is blank.
C13_UnrevealedNamedHoldAlphabet ==
    InRun =>
        \A c \in 1..NumCells :
            (c - 1) \notin Revealed =>
                IF (c - 1) \in Named(solved_order) /\ current_solution_string # Unbound
                  THEN current_solution[c] \in Alphabet
                  ELSE current_solution[c] = Blank

\* after the first reveal of order [0, 3] a fill has put "A" into cell 3 while
\* the unnamed cell 11 is blank
C13_Witness ==
    /\ pc = "inner"
    /\ solved_order = <<0, 3>>
    /\ solveCount = 1
    /\ current_solution[4] = "A"
    /\ current_solution[12] = Blank

ReleasePending == level[2] /\ ~BUT2

\* C15 as stated: from a release of BUT2 in the search phase until the
\* return, solveCount does not increase.
C15_NoRevealAfterRelease ==
    [][(pc \in {"inner", "polled"} /\ ReleasePending) =>
            solveCount' = solveCount]_vars

\* C15 amended: a release takes effect only at an abort check that samples
\* it.  The check reports fell exactly when BUT2 reads low and was last
\* sampled high; a reported release aborts as the next step of the call with
\* solveCount unchanged, and nothing else aborts.  A release that is pending
\* when the deadline test fails is not sampled before the reveal: the reveal
\* is made, and only at a deadline test that fails.
C15_ReleaseTakenAtAbortCheck ==
    /\ [][(pc = "inner" /\ pc' = "polled") =>
            ((changed'[2] /\ ~level'[2]) <=> ReleasePending)]_vars
    /\ [][(pc = "polled" /\ fell(2) /\ pc' # pc) =>
            (pc' = "aborted" /\ solveCount' = solveCount)]_vars
    /\ [][(pc # "aborted" /\ pc' = "aborted") => (pc = "polled" /\ fell(2))]_vars
    /\ [][(pc = "aborted" /\ pc' # pc) => pc' = ret]_vars
    /\ [][(InRun /\ ReleasePending /\ solveCount' = solveCount + 1) =>
            (pc = "inner" /\ ~ticks_less(ticks_ms, ticks_next))]_vars

\* a release is pending at a deadline test that fails: the reveal is next
C15_Witness ==
    /\ pc = "inner"
    /\ ReleasePending
    /\ current_solution_string # Unbound
    /\ ~ticks_less(ticks_ms, ticks_next)

\* C16: in every reveal step the wait is within 4000..8000 ms and the
\* deadline is ticks_add(ticks_now, ticks_wait); the deadline test holds
\* exactly while fewer than ticks_wait milliseconds have passed since the step
\* started, so the search loop goes on only before the deadline and a cell
\* is revealed only at or after it, also when the counter wraps in between.
C16_DeadlineArithmetic ==
    /\ [](pc \in {"inner", "polled"} =>
            /\ ticks_wait \in 4000..8000
            /\ ticks_next = (ticks_now + ticks_wait) % TICKS_PERIOD
            /\ ticks_ms = (ticks_now + elapsed) % TICKS_PERIOD
            /\ ticks_less(ticks_ms, ticks_next) <=> elapsed < ticks_wait)
    /\ [][(pc = "inner" /\ pc' = "polled") => elapsed < ticks_wait]_vars
    /\ [][(InRun /\ solveCount' = solveCount + 1) => elapsed >= ticks_wait]_vars
    /\ [][(pc = "inner" /\ elapsed >= ticks_wait /\ pc' # pc) =>
            solveCount' = solveCount + 1]_vars

\* the counter has wrapped since the step started and the deadline is ahead
C16_Witness ==
    /\ pc = "inner"
    /\ ticks_ms < ticks_now
    /\ ticks_next < ticks_now
    /\ 0 < elapsed
    /\ elapsed < ticks_wait

\* C17 as stated: every call of wopr_solve returns: until it has returned
\* the call always has a next step to take (its loops are bounded by
\* len(order), the deadline and the two counts of five).
C17_ReturnsOrCanStep ==
    pc = "exit" \/ ENABLED SolveNext

\* C18: the BUT2 edge that started a codebreak from the main loop is not
\* taken as an abort request.  The fell flag is still set when the call is
\* entered, but the abort check samples BUT2 before it reads fell: a check
\* that finds the input as it was last sampled reports no edge, a check made
\* while the debounced level is low never reports fell, and so the first
\* check of a run started by BUT2 never aborts and no such run is aborted
\* before the input has been sampled high again.
C18_LaunchEdgeNotAbort ==
    /\ []((pc = "solve_entry" /\ ret = "but2rose") => fell(2))
    /\ [][(pc = "inner" /\ pc' = "polled" /\ BUT2 = level[2]) => ~changed'[2]]_vars
    /\ [][(pc = "inner" /\ pc' = "polled" /\ ~level[2]) =>
            ~(changed'[2] /\ ~level'[2])]_vars
    /\ [][(pc = "inner" /\ pc' = "polled" /\ ret = "but2rose"
              /\ current_solution_string = Unbound) =>
            ~(changed'[2] /\ ~level'[2])]_vars
    /\ []((pc = "aborted" /\ ret = "but2rose") => current_solution_string # Unbound)

\* a run started by BUT2 has made its first reveal with the input still low
C18_Witness ==
    /\ ret = "but2rose"
    /\ pc = "outer"
    /\ solveCount = 1
    /\ ~level[2]
    /\ ~changed[2]
    /\ ~BUT2

\* C19: whenever wopr_solve returns, by abort or after the flourish, the
\* audio output is silent and the last tone is the bounded 1500 Hz alert; the
\* continuous noise tone sounds only inside the search loop.
C19_SilentOnReturn ==
    /\ pc \in {"aborted", "completed"} =>
          audio = [frequency |-> 1500, duty_cycle |-> 0]
    /\ pc = "exit" => audio.duty_cycle = 0
    /\ audio.duty_cycle # 0 =>
          (pc \in {"inner", "polled"} /\ current_solution_string # Unbound)

\* an abort after the noise tone has sounded
C19_Witness ==
    /\ pc = "aborted"
    /\ current_solution_string # Unbound
    /\ solveCount = 1
    /\ audio.duty_cycle = 0

====
